---- MODULE Spec2Model ----
(***************************************************************************)
(* State-machine model of orion-brains' run coordinator                    *)
(* (src/app/jobs/runner.py: run_once and the helpers it calls), the        *)
(* Polygon fetch loop (src/app/services/polygon.py), the entry-signal      *)
(* client (src/app/services/strategy_client.py), the notifier              *)
(* (src/app/services/telegram.py), the candle store                        *)
(* (src/app/db/candles.py) and the statement executor (src/app/db/neon.py).*)
(*                                                                         *)
(* Prices are integers (price points); the float factors of the source are *)
(* kept as hundredths (0.35 -> 35) and ATR inputs are multiples of 20      *)
(* points, so every product of the trail arithmetic is an exact integer.   *)
(* Timestamps of 15m bars are integers counting 15-minute grid steps.      *)
(***************************************************************************)
EXTENDS Integers, Sequences, FiniteSets, TLC

VARIABLES
    positions,   \* table positions: a set of rows (schema.py 17-45)
    candles,     \* per pair: what run_once reads of the candle cache
    clock,       \* wall clock, in seconds: int(now.timestamp())
    run,         \* per request worker: the locals of one run_once call
    mutations,   \* history: position id -> the bar ts of its last write, the
                 \* number of writes applied for that bar ts, the number of
                 \* TRAIL ON notifications sent for it and, until its first
                 \* write, the ts of the newest bar when it was opened
    DATA_ONLY,   \* the DATA_ONLY flag read from the environment at import
    env,         \* the environment of the behaviour: whether POST /v1/run requests
                 \* may overlap, the inputs the collaborators may deliver and the
                 \* outcomes the writes on positions may have
    requests,    \* number of requests served so far, counted when they may overlap
    cdb,         \* one (pair, tf) slice of the tables candles and candle_state
                 \* (schema.py 57-83), with the outcome of the last call on it
    norm,        \* one application of _normalize_ts: its arguments and result
    probe        \* one application of a helper of run_once (is_pivot_low,
                 \* is_pivot_high, the activation test): its arguments and result

vars == <<positions, candles, clock, run, mutations, DATA_ONLY, env, requests, cdb, norm,
          probe>>

----------------------------------------------------------------------------
(* Bounds of the model *)

MaxTs == 3       \* newest 15m bar timestamps are FirstTs..MaxTs
MaxRequests == 3 \* requests served in a behaviour with overlapping runs
KeepBars == 2    \* the `keep` argument of sync_tf (KEEP_15M, KEEP_1H), scaled down
TargetBars == 2  \* the `target` argument of backfill_if_needed (TARGET_*), scaled down

(* Program constants *)

NULL == -1                       \* SQL NULL / Python None in a numeric column
FRACTAL_K == 2
SWING_ATR_MIN_K == 35            \* 0.35, in hundredths
STRUCT_PAD_ATR == 5              \* 0.05, in hundredths
FLOOR_ATR_15_CONFIRMED == 120    \* 1.20, in hundredths
FLOOR_ATR_15_EARLY == 135        \* 1.35, in hundredths
ATR_LEN_15 == 14
ACT_EARLY == 9                   \* 0.9, in tenths
ACT_CONFIRMED == 7               \* 0.7, in tenths

MIN_BARS == ATR_LEN_15 + FRACTAL_K + 5     \* runner.py 314
FirstTs == FRACTAL_K                       \* time origin: the pivot bar's ts is >= 0

Runners == {1, 2}
Seconds == {0, 1}                          \* the values int(now.timestamp()) takes
Tickers == {"C:EURUSD"}
Universes == {<<"C:EURUSD">>, <<"C:EURUSD", "C:EURUSD">>}

_fmt_pair(pair) == IF pair = "C:EURUSD" THEN "EURUSD" ELSE pair
Shorts == {_fmt_pair(t) : t \in Tickers}

Sides == {"BUY", "SELL"}
Modes == {"EARLY", "CONFIRMED"}

(* Newest-bar shapes (low, high) the market-data source may deliver. *)
BarShapes ==
    { [lo |-> 95,  hi |-> 112],     \* arms nothing, reaches a SELL trail
      [lo |-> 99,  hi |-> 128],     \* arms a BUY, breaches a SELL stop
      [lo |-> 72,  hi |-> 101],     \* arms a SELL, reaches a BUY trail
      [lo |-> 65,  hi |-> 100] }    \* breaches a BUY stop

(* Well-formed signals the entry-signal service may return. *)
Signals ==
    { [side |-> "BUY",  mode |-> "EARLY", entry |-> 100, sl |-> 70],
      [side |-> "SELL", mode |-> "CONFIRMED", entry |-> 100, sl |-> 120] }
NoSignal == [side |-> "NONE", mode |-> "NONE", entry |-> NULL, sl |-> NULL]

NOT_A_NUMBER == -2               \* a value float() raises on: a word, null

(* Signals with the four required keys, one of them carrying a value outside *)
(* what the strategy service is to return (strategy_client.py 9-22).         *)
IllFormedSignals ==
    { [side |-> "HOLD", mode |-> "EARLY", entry |-> 100, sl |-> 70],
      [side |-> "BUY",  mode |-> "LATE", entry |-> 100, sl |-> 70],
      [side |-> "BUY",  mode |-> "EARLY", entry |-> NOT_A_NUMBER, sl |-> 70],
      [side |-> "SELL", mode |-> "CONFIRMED", entry |-> 100, sl |-> NOT_A_NUMBER] }

(* What the POST to the strategy service may come to: no answer (timeout,    *)
(* HTTP error, any exception), a body that is not a mapping, a mapping       *)
(* without the key "signal", {"signal": null}, a signal that is not a        *)
(* mapping, a signal that lacks a required key, a signal with the four keys. *)
ResponseShapes == {"absent", "not_mapping", "no_signal_key", "null_signal",
                   "signal_not_mapping", "lacks_key", "keys"}
NullResponse == [shape |-> "null_signal", sig |-> NoSignal]
SignalResponse(sig) == [shape |-> "keys", sig |-> sig]
Responses ==
    { [shape |-> sh, sig |-> NoSignal] : sh \in ResponseShapes \ {"keys"} } \cup
    { SignalResponse(sig) : sig \in Signals \cup IllFormedSignals }

\* What a response is, by the contract of the strategy service: no signal, a
\* signal, or neither (absent, of the wrong shape, or with a value that is not
\* one of BUY/SELL, EARLY/CONFIRMED, a number).
response_kind(response) ==
    IF response.shape = "null_signal" THEN "null"
    ELSE IF response.shape # "keys" THEN "malformed_shape"
    ELSE IF /\ response.sig.side \in Sides
            /\ response.sig.mode \in Modes
            /\ response.sig.entry # NOT_A_NUMBER
            /\ response.sig.sl # NOT_A_NUMBER
         THEN "signal"
    ELSE "malformed_value"

(* Indicator values drawn for one evaluation: ATR15 at the newest bar,      *)
(* whether the bar FRACTAL_K back is a pivot low or a pivot high, its low   *)
(* or high, and ATR15 at that bar. atr15 = 0 stands for NaN or 0.           *)
ATRs == {0, 20}
PivotLows == {80, 90}
PivotHighs == {110, 118}
Indicators ==
    { [atr15 |-> a, pivot |-> "none", piv |-> NULL, atr_piv |-> 0] : a \in ATRs } \cup
    { [atr15 |-> a, pivot |-> "low", piv |-> p, atr_piv |-> ap] :
          a \in ATRs, p \in PivotLows, ap \in ATRs \ {0} } \cup
    { [atr15 |-> a, pivot |-> "high", piv |-> p, atr_piv |-> ap] :
          a \in ATRs, p \in PivotHighs, ap \in ATRs \ {0} }

HttpStatuses == {200, 429, 403, 500}

Max(a, b) == IF a >= b THEN a ELSE b
Min(a, b) == IF a <= b THEN a ELSE b
Abs(a) == IF a >= 0 THEN a ELSE -a

----------------------------------------------------------------------------
(* Store: positions *)

NoPos == [id |-> <<"", NULL>>, pair |-> "", side |-> "NONE", mode |-> "NONE",
          entry_price |-> NULL, sl_price |-> NULL,
          trail_price |-> NULL, trail_on |-> FALSE,
          closed_at |-> NULL, close_reason |-> "NULL",
          last_15m_ts |-> NULL, last_swing_price |-> NULL, last_swing_ts |-> NULL]

OpenRows(tbl, pair_short) == {row \in tbl : row.pair = pair_short /\ row.closed_at = NULL}

\* Faulty variant: the filter on closed_at inverted (IS NOT NULL).
get_open_position_inverted(tbl, pair_short) ==
    IF {row \in tbl : row.pair = pair_short /\ row.closed_at # NULL} = {} THEN {NoPos}
    ELSE {row \in tbl : row.pair = pair_short /\ row.closed_at # NULL}

\* Faulty variant: the filter on closed_at left out.
get_open_position_any_row(tbl, pair_short) ==
    IF {row \in tbl : row.pair = pair_short} = {} THEN {NoPos}
    ELSE {row \in tbl : row.pair = pair_short}

\* SELECT * FROM positions WHERE pair=%s AND closed_at IS NULL LIMIT 1
get_open_position(tbl, pair_short) ==
    IF OpenRows(tbl, pair_short) = {} THEN {NoPos} ELSE OpenRows(tbl, pair_short)

\* INSERT INTO positions ...: the primary key (id) rejects a duplicate.
open_position_ok(tbl, pos_id) == \A row \in tbl : row.id # pos_id

\* float(entry), float(sl) of open_position's parameter tuple do not raise
open_position_floats_ok(entry, sl) == entry # NOT_A_NUMBER /\ sl # NOT_A_NUMBER

\* CHECK (side IN ('BUY','SELL')), CHECK (mode IN ('EARLY','CONFIRMED'))
open_position_checks_ok(side, mode) == side \in Sides /\ mode \in Modes

open_position(tbl, pos_id, pair_short, side, mode, entry, sl) ==
    tbl \cup { [id |-> pos_id, pair |-> pair_short, side |-> side, mode |-> mode,
                entry_price |-> entry, sl_price |-> sl,
                trail_price |-> NULL, trail_on |-> FALSE,
                closed_at |-> NULL, close_reason |-> "NULL",
                last_15m_ts |-> NULL, last_swing_price |-> NULL,
                last_swing_ts |-> NULL] }

\* Faulty variant: the close also clears the trail.
close_position_clears_trail(tbl, pos_id, reason, db_now) ==
    { IF row.id = pos_id
      THEN [row EXCEPT !.closed_at = db_now, !.close_reason = reason,
                       !.trail_price = NULL, !.trail_on = FALSE]
      ELSE row : row \in tbl }

\* UPDATE positions SET closed_at=NOW(), close_reason=%s WHERE id=%s
close_position(tbl, pos_id, reason, db_now) ==
    { IF row.id = pos_id
      THEN [row EXCEPT !.closed_at = db_now, !.close_reason = reason]
      ELSE row : row \in tbl }

\* Faulty variant: last_15m_ts left out of the SET list.
update_trail_no_marker(tbl, pos_id, trail_price, trail_on, last_15m_ts, swing_price, swing_ts) ==
    { IF row.id = pos_id
      THEN [row EXCEPT !.trail_price = trail_price, !.trail_on = trail_on,
                       !.last_swing_price = swing_price,
                       !.last_swing_ts = swing_ts]
      ELSE row : row \in tbl }

\* UPDATE positions SET trail_price, trail_on, last_15m_ts, last_swing_* WHERE id=%s
update_trail(tbl, pos_id, trail_price, trail_on, last_15m_ts, swing_price, swing_ts) ==
    { IF row.id = pos_id
      THEN [row EXCEPT !.trail_price = trail_price, !.trail_on = trail_on,
                       !.last_15m_ts = last_15m_ts,
                       !.last_swing_price = swing_price,
                       !.last_swing_ts = swing_ts]
      ELSE row : row \in tbl }

----------------------------------------------------------------------------
(* Trail engine *)

\* Faulty variant: the stored trail left out of the max / min.
tighten_no_ratchet(side, trail, cand, sl) ==
    IF side = "BUY" THEN Max(cand, sl) ELSE Min(cand, sl)

\* Faulty variant: trail = cand.
tighten_takes_candidate(side, trail, cand, sl) == cand

\* trail = max(trail, cand, sl) for BUY, min(trail, cand, sl) for SELL
tighten(side, trail, cand, sl) ==
    IF side = "BUY" THEN Max(Max(trail, cand), sl) ELSE Min(Min(trail, cand), sl)

compute_trail(pos, df15, ind) ==
    LET side == pos.side
        mode == pos.mode
        entry == pos.entry_price
        sl == pos.sl_price
        trail_on == pos.trail_on
        \* float(pos["trail_price"] or sl)
        trail == IF pos.trail_price = NULL \/ pos.trail_price = 0
                 THEN sl ELSE pos.trail_price
        unchanged == [trail_on |-> trail_on, trail |-> trail,
                      last_swing |-> pos.last_swing_price,
                      last_swing_ts |-> pos.last_swing_ts]
        atr15 == ind.atr15
        floor_mult == IF mode = "EARLY" THEN FLOOR_ATR_15_EARLY
                      ELSE FLOOR_ATR_15_CONFIRMED
        pivot_i == df15.n - 1 - FRACTAL_K
        accept == /\ pivot_i > ATR_LEN_15
                  /\ \/ side = "BUY" /\ ind.pivot = "low"     \* is_pivot_low
                     \/ side = "SELL" /\ ind.pivot = "high"   \* is_pivot_high
                  /\ \/ pos.last_swing_price = NULL
                     \/ 100 * Abs(ind.piv - pos.last_swing_price)
                            >= SWING_ATR_MIN_K * ind.atr_piv
        last_swing == IF accept THEN ind.piv ELSE pos.last_swing_price
        last_swing_ts == IF accept THEN df15.ts - FRACTAL_K ELSE pos.last_swing_ts
        pad == (STRUCT_PAD_ATR * atr15) \div 100
        dist == (floor_mult * atr15) \div 100
        candBuy == IF last_swing = NULL THEN entry - dist
                   ELSE Max(last_swing - pad, entry - dist)
        candSell == IF last_swing = NULL THEN entry + dist
                    ELSE Min(last_swing + pad, entry + dist)
        moved == tighten(side, trail, IF side = "BUY" THEN candBuy ELSE candSell, sl)
    IN  IF df15.n < MIN_BARS THEN unchanged
        ELSE IF ~(atr15 > 0) THEN unchanged
        ELSE IF ~trail_on
             THEN [trail_on |-> trail_on, trail |-> trail,
                   last_swing |-> last_swing, last_swing_ts |-> last_swing_ts]
             ELSE [trail_on |-> trail_on, trail |-> moved,
                   last_swing |-> last_swing, last_swing_ts |-> last_swing_ts]

----------------------------------------------------------------------------
(* Polygon fetch and the entry-signal client *)

HTTPError(status) == [type |-> "HTTPError", status_code |-> status]
NoError == [type |-> "None", status_code |-> 0]

_is_http_429(err) == err.type = "HTTPError" /\ err.status_code = 429

\* One response of sess.get inside _fetch_agg's `while True` loop:
\* "retry" (429: sleep, continue), "raise" (raise_for_status) or "data".
_fetch_agg(status) ==
    IF status = 429 THEN [step |-> "retry", err |-> NoError]
    ELSE IF status >= 400 THEN [step |-> "raise", err |-> HTTPError(status)]
    ELSE [step |-> "data", err |-> NoError]

\* The payload run_once gets for a response of the strategy service: the
\* received mapping when it has the key "signal" and the signal is null or a
\* mapping with the keys side, mode, entry, sl; {"signal": None} otherwise.
call_trend_engine(response) ==
    IF response.shape \in {"absent", "not_mapping", "no_signal_key"}
    THEN [signal |-> NoSignal]
    ELSE IF response.shape = "null_signal" THEN [signal |-> NoSignal]
    ELSE IF response.shape \in {"signal_not_mapping", "lacks_key"}
    THEN [signal |-> NoSignal]
    ELSE [signal |-> response.sig]

\* What requests.post of send_telegram may come to: a 2xx answer, an answer
\* with status >= 300, or an exception (network failure, timeout).
TelegramOutcomes == {"ok", "error_status", "raises"}

\* Faulty variant: the try/except around requests.post left out.
send_telegram_uncaught(outcome) ==
    IF outcome = "raises" THEN "raised" ELSE "returned"

\* send_telegram: whether the call returns or raises to its caller
send_telegram(outcome) ==
    IF outcome = "ok" THEN "returned"
    ELSE IF outcome = "error_status" THEN "returned"     \* log.warning
    ELSE "returned"                                      \* except Exception: log.warning

\* What cur.execute of exec_sql may come to for a write on positions: it
\* succeeds, or psycopg raises (connection lost, statement rejected).
StoreOutcomes == {"ok", "raises"}

\* exec_sql: whether the call returns or raises to its caller
exec_sql(outcome) ==
    IF outcome = "ok" THEN "returned"
    ELSE "raised"                           \* except ...: conn.rollback(); raise

\* History: the least favourable outcome of the sends of one step ("none": no send)
worst(o1, o2) ==
    IF "raises" \in {o1, o2} THEN "raises"
    ELSE IF "error_status" \in {o1, o2} THEN "error_status"
    ELSE IF "ok" \in {o1, o2} THEN "ok"
    ELSE "none"

----------------------------------------------------------------------------
(* run_once: one request worker's locals *)

NoDf == [n |-> 0, ts |-> NULL, hi |-> NULL, lo |-> NULL]

IdleRun == [pc |-> "idle", universe |-> <<>>, i |-> 0, now |-> NULL,
            status_code |-> 0, df15 |-> NoDf, pos |-> NoPos, out |-> <<>>,
            result |-> "none", resp |-> "none", tg |-> "none", atr15 |-> NULL,
            on_open_bar |-> FALSE]

pair_short_of(rr) == _fmt_pair(rr.universe[rr.i])

\* out["pairs"][pair_short] = {"actions": []}
reset_pair(out, ps) == [p \in DOMAIN out \cup {ps} |-> IF p = ps THEN <<>> ELSE out[p]]

\* actions.append(...) then `continue` (or the end of the loop body):
\* the next instrument of the universe, or `return out`.
next_pair(rr, acts) ==
    LET ps == pair_short_of(rr)
        o == [rr.out EXCEPT ![ps] = @ \o acts]
    IN  IF rr.i < Len(rr.universe)
        THEN [rr EXCEPT !.out = o, !.i = rr.i + 1, !.pc = "begin",
                        !.df15 = NoDf, !.pos = NoPos]
        ELSE [rr EXCEPT !.out = o, !.pc = "done", !.result = "ok",
                        !.df15 = NoDf, !.pos = NoPos]

\* except Exception as e: 429 => return {"error": "polygon_rate_limited"}, else raise
sync_failed(rr, err) ==
    IF _is_http_429(err)
    THEN [rr EXCEPT !.pc = "done", !.result = "polygon_rate_limited",
                    !.status_code = err.status_code]
    ELSE [rr EXCEPT !.pc = "done", !.result = "raised",
                    !.status_code = err.status_code]

FetchPcs == {"sync15", "sync1h", "bf15", "bf1h"}

\* The candle tables and _normalize_ts while run_once is modelled on the cache
\* summary `candles`.
NoDb == [tf |-> "none", rows |-> {}, last_ts |-> NULL, op |-> "none", did |-> FALSE,
         wrote |-> {}, lastw |-> <<>>, src |-> <<>>, expect |-> <<>>, source |-> {}]
NoNorm == [tf |-> "none", ts |-> NULL, out |-> NULL]
NoProbe == [fn |-> "none"]

Init ==
    /\ positions = {}
    /\ candles = [p \in Shorts |-> [n |-> 0, ts |-> NULL, hi |-> NULL, lo |-> NULL,
                                     has1h |-> FALSE]]
    /\ clock = 0
    /\ run = [r \in Runners |-> IdleRun]
    /\ mutations = <<>>
    /\ DATA_ONLY \in BOOLEAN
    /\ env = [overlap |-> FALSE, universes |-> Universes, shapes |-> BarShapes,
               indicators |-> Indicators, responses |-> Responses,
               telegram |-> TelegramOutcomes, store |-> {"ok"}]
    /\ requests = 0
    /\ cdb = NoDb
    /\ norm = NoNorm
    /\ probe = NoProbe

\* POST /v1/run -> run_once(universe): now = _utc_now(), out = {"pairs": {}}
RunStart(r) ==
    /\ run[r].pc = "idle"
    \* worker 1 serves a request that finds no run in progress, worker 2 one
    \* that arrives while a run is in progress
    /\ r = 1 \/ (env.overlap /\ run[1].pc # "idle")
    /\ env.overlap => requests < MaxRequests
    /\ requests' = IF env.overlap THEN requests + 1 ELSE requests
    /\ \E u \in env.universes, t \in {clock, clock + 1} :
          /\ t \in Seconds
          /\ clock' = t
          /\ run' = [run EXCEPT ![r] =
                 [IdleRun EXCEPT !.pc = "begin", !.universe = u, !.i = 1, !.now = t]]
    /\ UNCHANGED <<positions, candles, mutations, DATA_ONLY, env, cdb, norm, probe>>

\* for pair in universe: pair_short = _fmt_pair(pair); out["pairs"][pair_short] = ...
BeginPair(r) ==
    /\ run[r].pc = "begin"
    /\ run' = [run EXCEPT ![r].out = reset_pair(run[r].out, pair_short_of(run[r])),
                          ![r].pc = "sync15", ![r].resp = "none", ![r].tg = "none",
                          ![r].atr15 = NULL, ![r].on_open_bar = FALSE]
    /\ UNCHANGED <<positions, candles, clock, mutations, DATA_ONLY, env, requests, cdb, norm, probe>>

\* _fetch_agg: r = sess.get(...) answers 429
FetchRetry(r) ==
    /\ run[r].pc \in FetchPcs
    /\ run[r].status_code # 429
    /\ \E status \in HttpStatuses :
          /\ _fetch_agg(status).step = "retry"
          /\ run' = [run EXCEPT ![r].status_code = status]
    /\ UNCHANGED <<positions, candles, clock, mutations, DATA_ONLY, env, requests, cdb, norm, probe>>

\* _fetch_agg after a 429: time.sleep(SLEEP_429_SEC); continue: the request is
\* sent again
FetchSleep(r) ==
    /\ run[r].pc \in FetchPcs
    /\ run[r].status_code = 429
    /\ run' = [run EXCEPT ![r].status_code = 0]
    /\ UNCHANGED <<positions, candles, clock, mutations, DATA_ONLY, env, requests, cdb, norm, probe>>

\* _fetch_agg raises (raise_for_status): the except clause of run_once
FetchRaise(r) ==
    /\ run[r].pc \in FetchPcs
    /\ \E status \in HttpStatuses :
          /\ _fetch_agg(status).step = "raise"
          /\ run' = [run EXCEPT ![r] = sync_failed(run[r], _fetch_agg(status).err)]
    /\ UNCHANGED <<positions, candles, clock, mutations, DATA_ONLY, env, requests, cdb, norm, probe>>

\* sync_tf(pair, pair_short, "15m", ...) with a 200 response: what the upsert
\* leaves as the newest 15m bar and the bar count (counted up to MIN_BARS, the
\* only length run_once compares it with).
sync_tf_15m(c, shapes) ==
    \* fetch returned nothing, or nothing newer than the watermark
    {c} \cup
    \* bootstrap of an empty cache: too few bars for the trail engine, or enough
    { [c EXCEPT !.n = k, !.ts = FirstTs, !.hi = b.hi, !.lo = b.lo] :
          k \in IF c.n = 0 THEN {MIN_BARS - 2, MIN_BARS} ELSE {}, b \in shapes } \cup
    \* t - c.ts new bars, the newest at t
    { [c EXCEPT !.n = Min(c.n + (t - c.ts), MIN_BARS), !.ts = t, !.hi = b.hi, !.lo = b.lo] :
          t \in IF c.n = 0 THEN {} ELSE (c.ts + 1)..MaxTs, b \in shapes } \cup
    \* a raw timestamp after the watermark that normalizes onto it: the newest
    \* bar is overwritten (ON CONFLICT DO UPDATE)
    { [c EXCEPT !.hi = b.hi, !.lo = b.lo] :
          b \in IF c.n = 0 THEN {} ELSE shapes }

sync_tf_1h(c) == {c, [c EXCEPT !.has1h = TRUE]}

\* backfill_if_needed: <<cache after, did>>
backfill_if_needed(c) ==
    {<<c, FALSE>>} \cup
    { <<[c EXCEPT !.n = Min(c.n + 1, MIN_BARS)], TRUE>> : x \in IF c.n = 0 THEN {} ELSE {1} }

\* sync_tf: the fetch answered 200
SyncTf(r) ==
    /\ run[r].pc \in {"sync15", "sync1h"}
    /\ \E status \in HttpStatuses :
          /\ _fetch_agg(status).step = "data"
          /\ LET ps == pair_short_of(run[r]) IN
             \E c \in IF run[r].pc = "sync15" THEN sync_tf_15m(candles[ps], env.shapes)
                      ELSE sync_tf_1h(candles[ps]) :
                /\ candles' = [candles EXCEPT ![ps] = c]
                /\ run' = [run EXCEPT ![r].status_code = 0,
                                      ![r].pc =
                              IF run[r].pc = "sync15" THEN "sync1h"
                              ELSE IF DATA_ONLY THEN "bf15" ELSE "load"]
    /\ UNCHANGED <<positions, clock, mutations, DATA_ONLY, env, requests, cdb, norm, probe>>

\* DATA_ONLY: backfill_if_needed for 15m, then for 1h, then `continue`
Backfill(r) ==
    /\ run[r].pc \in {"bf15", "bf1h"}
    /\ \E status \in HttpStatuses :
          /\ _fetch_agg(status).step = "data"
          /\ LET ps == pair_short_of(run[r]) IN
             IF run[r].pc = "bf15"
             THEN \E res \in backfill_if_needed(candles[ps]) :
                    /\ candles' = [candles EXCEPT ![ps] = res[1]]
                    /\ run' = [run EXCEPT ![r].pc = "bf1h",
                                          ![r].status_code = 0,
                                          ![r].out[ps] = @ \o
                                  <<IF res[2] THEN "data_only_backfill_15m=True"
                                    ELSE "data_only_backfill_15m=False">>]
             ELSE \E did \in IF candles[ps].has1h THEN BOOLEAN ELSE {FALSE} :
                    /\ candles' = candles
                    /\ run' = [run EXCEPT ![r] = next_pair([run[r] EXCEPT !.status_code = 0],
                                  <<IF did THEN "data_only_backfill_1h=True"
                                    ELSE "data_only_backfill_1h=False">>)]
    /\ UNCHANGED <<positions, clock, mutations, DATA_ONLY, env, requests, cdb, norm, probe>>

\* df15 = _load_df_from_neon(...); df1h = ...; if df15.empty or df1h.empty: no_cached_data
_load_df_from_neon(c) == [n |-> c.n, ts |-> c.ts, hi |-> c.hi, lo |-> c.lo]

LoadDf(r) ==
    /\ run[r].pc = "load"
    /\ LET ps == pair_short_of(run[r])
           df15 == _load_df_from_neon(candles[ps])
       IN  run' = [run EXCEPT ![r] =
                     IF df15.n = 0 \/ ~candles[ps].has1h
                     THEN next_pair(run[r], <<"no_cached_data">>)
                     ELSE [run[r] EXCEPT !.df15 = df15, !.pc = "getpos"]]
    /\ UNCHANGED <<positions, candles, clock, mutations, DATA_ONLY, env, requests, cdb, norm, probe>>

\* pos = get_open_position(pair_short); if pos: ... else: entry
GetOpenPosition(r) ==
    /\ run[r].pc = "getpos"
    /\ \E pos \in get_open_position(positions, pair_short_of(run[r])) :
          run' = [run EXCEPT ![r].pos = pos,
                             ![r].pc = IF pos = NoPos THEN "entry" ELSE "manage"]
    /\ UNCHANGED <<positions, candles, clock, mutations, DATA_ONLY, env, requests, cdb, norm, probe>>

----------------------------------------------------------------------------
(* run_once: manage the open position (runner.py 404-461) *)

\* Faulty variant: a null marker counts as processed.
already_processed_15m_null_marker(pos, last15_ts) ==
    pos.last_15m_ts = NULL \/ pos.last_15m_ts >= last15_ts

\* if pos["last_15m_ts"] is not None and pos["last_15m_ts"] >= last15_ts
already_processed_15m(pos, last15_ts) ==
    pos.last_15m_ts # NULL /\ pos.last_15m_ts >= last15_ts

\* Faulty variant: the trail check placed before the stop check.
hit_check_trail_first(pos, df15) ==
    LET sl == pos.sl_price
        trail_on == pos.trail_on
        trail == pos.trail_price
    IN  IF pos.side = "BUY"
        THEN IF trail_on /\ trail # NULL /\ df15.lo <= trail THEN "TRAIL"
             ELSE IF df15.lo <= sl THEN "SL"
             ELSE "NONE"
        ELSE IF trail_on /\ trail # NULL /\ df15.hi >= trail THEN "TRAIL"
             ELSE IF df15.hi >= sl THEN "SL"
             ELSE "NONE"

\* Faulty variant: the stop branch closes with the trail reason.
hit_check_stop_reason_trail(pos, df15) ==
    LET sl == pos.sl_price
        trail_on == pos.trail_on
        trail == pos.trail_price
    IN  IF pos.side = "BUY"
        THEN IF df15.lo <= sl THEN "TRAIL"
             ELSE IF trail_on /\ trail # NULL /\ df15.lo <= trail THEN "TRAIL"
             ELSE "NONE"
        ELSE IF df15.hi >= sl THEN "TRAIL"
             ELSE IF trail_on /\ trail # NULL /\ df15.hi >= trail THEN "TRAIL"
             ELSE "NONE"

\* The stop check, then the trail check, on the newest bar: "SL", "TRAIL" or "NONE".
hit_check(pos, df15) ==
    LET sl == pos.sl_price
        trail_on == pos.trail_on
        trail == pos.trail_price
    IN  IF pos.side = "BUY"
        THEN IF df15.lo <= sl THEN "SL"
             ELSE IF trail_on /\ trail # NULL /\ df15.lo <= trail THEN "TRAIL"
             ELSE "NONE"
        ELSE IF df15.hi >= sl THEN "SL"
             ELSE IF trail_on /\ trail # NULL /\ df15.hi >= trail THEN "TRAIL"
             ELSE "NONE"

\* fav >= act, with fav = num / risk (0.0 when risk = 0) and act in tenths
fav_reaches_act(pos, df15) ==
    LET risk == Abs(pos.entry_price - pos.sl_price)
        num == IF pos.side = "BUY" THEN df15.hi - pos.entry_price
               ELSE pos.entry_price - df15.lo
        act == IF pos.mode = "EARLY" THEN ACT_EARLY ELSE ACT_CONFIRMED
    IN  IF risk > 0 THEN 10 * num >= act * risk ELSE 0 >= act

\* Faulty variant: trail_on = (fav >= act), the stored flag forgotten.
arm_recomputed(pos, df15) == fav_reaches_act(pos, df15)

\* if (not trail_on) and (fav >= act): trail_on = True
arm(pos, df15) == pos.trail_on \/ (~pos.trail_on /\ fav_reaches_act(pos, df15))

MaxTrailOn == 2   \* TRAIL ON notifications followed for one position

\* History: TRAIL ON notifications sent so far for a position, and the newest
\* bar's ts when it was opened (NULL once it has been written)
sent(m, id) == IF id \in DOMAIN m THEN m[id].on ELSE 0
opened_on(m, id) == IF id \in DOMAIN m THEN m[id].opened ELSE NULL

\* History: open_position applied while the newest bar is the one at ts
opened_at(m, id, ts) ==
    [k \in DOMAIN m \cup {id} |->
        IF k # id THEN m[k] ELSE [ts |-> NULL, n |-> 0, on |-> 0, opened |-> ts]]

\* History: send_telegram("TRAIL ON ...") called for the position
trail_on_sent(m, id) ==
    [k \in DOMAIN m \cup {id} |->
        IF k # id THEN m[k]
        ELSE IF id \in DOMAIN m THEN [m[id] EXCEPT !.on = @ + 1]
        ELSE [ts |-> NULL, n |-> 0, on |-> 1, opened |-> NULL]]

\* History: update_trail or close_position applied for the bar at ts
bump(m, id, ts) ==
    [k \in DOMAIN m \cup {id} |->
        IF k # id THEN m[k]
        ELSE IF id \in DOMAIN m /\ m[id].ts = ts
             THEN [ts |-> ts, n |-> m[id].n + 1, on |-> m[id].on, opened |-> NULL]
        ELSE [ts |-> ts, n |-> 1, on |-> sent(m, id), opened |-> NULL]]

\* A notification raised to run_once: nothing catches it
notify_failed(rr, outcome) ==
    [rr EXCEPT !.pc = "done", !.result = "raised", !.tg = outcome]

\* exec_sql of a write on positions raised to run_once: nothing catches it
store_failed(rr) == [rr EXCEPT !.pc = "done", !.result = "raised"]

Manage(r) ==
    /\ run[r].pc = "manage"
    /\ LET rr == run[r]
           pos == rr.pos
           df15 == rr.df15
           last15_ts == df15.ts
           reason == hit_check(pos, df15)
           \* history: no newer bar has been stored since the position was opened
           fresh == opened_on(mutations, pos.id) = last15_ts
       IN  IF already_processed_15m(pos, last15_ts)
           THEN /\ run' = [run EXCEPT ![r] = next_pair(rr, <<"already_processed_15m">>)]
                /\ UNCHANGED <<positions, mutations>>
           ELSE IF reason # "NONE"
           THEN \* close_position, send_telegram, actions.append, continue
                \E w \in env.store :
                   IF exec_sql(w) = "raised"
                   THEN /\ run' = [run EXCEPT ![r] =
                                      [store_failed(rr) EXCEPT !.on_open_bar = fresh]]
                        /\ UNCHANGED <<positions, mutations>>
                   ELSE /\ positions' = close_position(positions, pos.id, reason, clock)
                        /\ mutations' = bump(mutations, pos.id, last15_ts)
                        /\ \E o \in env.telegram :
                              run' = [run EXCEPT ![r] =
                                 IF send_telegram(o) = "raised"
                                 THEN [notify_failed(rr, o) EXCEPT !.on_open_bar = fresh]
                                 ELSE [next_pair(rr, <<IF reason = "SL" THEN "closed_SL"
                                                       ELSE "closed_TRAIL">>)
                                          EXCEPT !.tg = o, !.on_open_bar = fresh]]
           ELSE \E ind \in env.indicators :
                  LET trail_on == arm(pos, df15)
                      armed_now == ~pos.trail_on /\ trail_on
                      old_trail == IF pos.trail_price # NULL THEN pos.trail_price
                                   ELSE pos.sl_price
                      t == compute_trail([pos EXCEPT !.trail_on = trail_on], df15, ind)
                      moved == t.trail_on /\ t.trail # old_trail
                      \* atr15 = float(df15["ATR15"].iloc[-1]), read once the
                      \* frame is long enough
                      atr15 == IF df15.n < MIN_BARS THEN NULL ELSE ind.atr15
                      \* history: send_telegram("TRAIL ON ...") was called
                      told == IF armed_now THEN trail_on_sent(mutations, pos.id)
                              ELSE mutations
                  IN  \E o1 \in IF armed_now THEN env.telegram ELSE {"none"},
                         o2 \in IF moved THEN env.telegram ELSE {"none"},
                         w \in IF armed_now /\ sent(mutations, pos.id) + 1 >= MaxTrailOn
                               THEN {"ok"} ELSE env.store :
                        IF armed_now /\ send_telegram(o1) = "raised"
                        THEN \* TRAIL ON raised before update_trail
                             /\ run' = [run EXCEPT ![r] =
                                           [notify_failed(rr, o1) EXCEPT !.on_open_bar = fresh]]
                             /\ UNCHANGED <<positions, mutations>>
                        ELSE IF exec_sql(w) = "raised"
                        THEN \* update_trail raised after TRAIL ON was sent
                             /\ run' = [run EXCEPT ![r] =
                                           [store_failed(rr) EXCEPT !.tg = o1,
                                                                    !.atr15 = atr15,
                                                                    !.on_open_bar = fresh]]
                             /\ mutations' = told
                             /\ UNCHANGED positions
                        ELSE /\ positions' = update_trail(positions, pos.id, t.trail,
                                       t.trail_on, last15_ts, t.last_swing, t.last_swing_ts)
                             /\ mutations' = bump(told, pos.id, last15_ts)
                             /\ run' = [run EXCEPT ![r] =
                                   IF moved /\ send_telegram(o2) = "raised"
                                   THEN [notify_failed(rr, worst(o1, o2))
                                            EXCEPT !.atr15 = atr15, !.on_open_bar = fresh]
                                   ELSE [next_pair(rr, <<"managed_position">>)
                                            EXCEPT !.tg = worst(o1, o2),
                                                   !.atr15 = atr15,
                                                   !.on_open_bar = fresh]]
    /\ UNCHANGED <<candles, clock, DATA_ONLY, env, requests, cdb, norm, probe>>

\* call_trend_engine; if not sig: no_signal; else open_position(sid, ...).
\* resp keeps what kind of response the strategy service gave.
Entry(r) ==
    /\ run[r].pc = "entry"
    /\ \E response \in env.responses :
          LET rr == run[r]
              ps == pair_short_of(rr)
              sig == call_trend_engine(response).signal
              sid == <<ps, rr.now>>      \* f"TR-{pair_short}-{int(now.timestamp())}-OR"
              kind == response_kind(response)
          IN  IF sig = NoSignal
              THEN /\ run' = [run EXCEPT ![r] =
                                 [next_pair(rr, <<"no_signal">>) EXCEPT !.resp = kind]]
                   /\ UNCHANGED <<positions, mutations>>
              ELSE IF /\ open_position_floats_ok(sig.entry, sig.sl)
                      /\ open_position_checks_ok(sig.side, sig.mode)
                      /\ open_position_ok(positions, sid)
              THEN \E w \in env.store :
                     IF exec_sql(w) = "raised"
                     THEN /\ run' = [run EXCEPT ![r] =
                                        [store_failed(rr) EXCEPT !.resp = kind]]
                          /\ UNCHANGED <<positions, mutations>>
                     ELSE /\ positions' = open_position(positions, sid, ps, sig.side,
                                                        sig.mode, sig.entry, sig.sl)
                          /\ mutations' = opened_at(mutations, sid, rr.df15.ts)
                          /\ \E o \in env.telegram :
                                run' = [run EXCEPT ![r] =
                                   IF send_telegram(o) = "raised"
                                   THEN [notify_failed(rr, o) EXCEPT !.resp = kind]
                                   ELSE [next_pair(rr, <<"opened">>) EXCEPT !.resp = kind,
                                                                            !.tg = o]]
              ELSE \* float() or the INSERT raises (ValueError, CHECK violation,
                   \* duplicate key): nothing catches it
                   /\ run' = [run EXCEPT ![r].pc = "done", ![r].result = "raised",
                                         ![r].resp = kind]
                   /\ UNCHANGED <<positions, mutations>>
    /\ UNCHANGED <<candles, clock, DATA_ONLY, env, requests, cdb, norm, probe>>

\* res = run_once(universe); return res: the response leaves the worker
Return(r) ==
    /\ run[r].pc = "done"
    /\ run' = [run EXCEPT ![r] = IdleRun]
    /\ UNCHANGED <<positions, candles, clock, mutations, DATA_ONLY, env, requests, cdb, norm, probe>>

Next ==
    \E r \in Runners :
        \/ RunStart(r)
        \/ BeginPair(r)
        \/ FetchRetry(r)
        \/ FetchSleep(r)
        \/ FetchRaise(r)
        \/ SyncTf(r)
        \/ Backfill(r)
        \/ LoadDf(r)
        \/ GetOpenPosition(r)
        \/ Manage(r)
        \/ Entry(r)
        \/ Return(r)

Spec == Init /\ [][Next]_vars

InitOverlap ==
    /\ positions = {}
    /\ candles = [p \in Shorts |-> [n |-> 0, ts |-> NULL, hi |-> NULL, lo |-> NULL,
                                     has1h |-> FALSE]]
    /\ clock = 0
    /\ run = [r \in Runners |-> IdleRun]
    /\ mutations = <<>>
    /\ DATA_ONLY \in BOOLEAN
    /\ env = [overlap |-> TRUE, universes |-> {<<"C:EURUSD">>},
               shapes |-> {[lo |-> 95, hi |-> 112], [lo |-> 65, hi |-> 100]},
               indicators |-> {[atr15 |-> 20, pivot |-> "none", piv |-> NULL, atr_piv |-> 0]},
               responses |-> {NullResponse,
                              SignalResponse([side |-> "BUY", mode |-> "EARLY",
                                              entry |-> 100, sl |-> 70])},
               telegram |-> {"ok"}, store |-> {"ok"}]
    /\ requests = 0
    /\ cdb = NoDb
    /\ norm = NoNorm
    /\ probe = NoProbe

SpecOverlap == InitOverlap /\ [][Next]_vars

\* Sequential runs that keep taking steps while a step is possible; what the
\* market-data source and the strategy service answer stays their choice.
InitFair ==
    /\ positions = {}
    /\ candles = [p \in Shorts |-> [n |-> 0, ts |-> NULL, hi |-> NULL, lo |-> NULL,
                                     has1h |-> FALSE]]
    /\ clock = 0
    /\ run = [r \in Runners |-> IdleRun]
    /\ mutations = <<>>
    /\ DATA_ONLY \in BOOLEAN
    /\ env = [overlap |-> FALSE, universes |-> {<<"C:EURUSD">>},
               shapes |-> {[lo |-> 95, hi |-> 112], [lo |-> 65, hi |-> 100]},
               indicators |-> {[atr15 |-> 20, pivot |-> "none", piv |-> NULL, atr_piv |-> 0]},
               responses |-> {NullResponse,
                              SignalResponse([side |-> "BUY", mode |-> "EARLY",
                                              entry |-> 100, sl |-> 70])},
               telegram |-> {"ok"}, store |-> {"ok"}]
    /\ requests = 0
    /\ cdb = NoDb
    /\ norm = NoNorm
    /\ probe = NoProbe

SpecFair == InitFair /\ [][Next]_vars /\ WF_vars(Next)

\* Sequential runs in which a write on positions may raise: exec_sql re-raises
\* what psycopg raises and run_once catches nothing around its writes.
InitStoreFaults ==
    /\ positions = {}
    /\ candles = [p \in Shorts |-> [n |-> 0, ts |-> NULL, hi |-> NULL, lo |-> NULL,
                                     has1h |-> FALSE]]
    /\ clock = 0
    /\ run = [r \in Runners |-> IdleRun]
    /\ mutations = <<>>
    /\ DATA_ONLY \in BOOLEAN
    /\ env = [overlap |-> FALSE, universes |-> {<<"C:EURUSD">>},
               shapes |-> {[lo |-> 95, hi |-> 112], [lo |-> 99, hi |-> 128]},
               indicators |-> {[atr15 |-> 20, pivot |-> "none", piv |-> NULL, atr_piv |-> 0]},
               responses |-> {NullResponse} \cup {SignalResponse(sig) : sig \in Signals},
               telegram |-> {"ok"}, store |-> StoreOutcomes]
    /\ requests = 0
    /\ cdb = NoDb
    /\ norm = NoNorm
    /\ probe = NoProbe

SpecStoreFaults == InitStoreFaults /\ [][Next]_vars

----------------------------------------------------------------------------
(* Candle timestamps (src/app/db/candles.py). Instants are seconds, UTC. *)

HMS(h, m, sec) == (h * 60 + m) * 60 + sec
Timeframes == {"15m", "1h"}

\* The bar interval of a timeframe: the "15min" and "1H" of Timestamp.floor
Interval(tf) == IF tf = "15m" THEN HMS(0, 15, 0) ELSE HMS(1, 0, 0)

\* Timestamp.floor(freq)
floor(t, freq) == (t \div freq) * freq

\* Faulty variant: floor() without the half-bucket shift.
_normalize_ts_floor(ts, tf) ==
    IF tf = "15m" THEN floor(ts, HMS(0, 15, 0))
    ELSE IF tf = "1h" THEN floor(ts, HMS(1, 0, 0))
    ELSE ts

_normalize_ts(ts, tf) ==
    IF tf = "15m" THEN floor(ts + HMS(0, 7, 30), HMS(0, 15, 0))
    ELSE IF tf = "1h" THEN floor(ts + HMS(0, 30, 0), HMS(1, 0, 0))
    ELSE ts

\* The instants _normalize_ts is applied to: 20:30:00 .. 22:30:00
NormTimes == HMS(20, 30, 0)..HMS(22, 30, 0)

InitNormalize ==
    /\ positions = {}
    /\ candles = [p \in Shorts |-> [n |-> 0, ts |-> NULL, hi |-> NULL, lo |-> NULL,
                                     has1h |-> FALSE]]
    /\ clock = 0
    /\ run = [r \in Runners |-> IdleRun]
    /\ mutations = <<>>
    /\ DATA_ONLY = FALSE
    /\ env = [overlap |-> FALSE, universes |-> {}, shapes |-> {}, indicators |-> {},
               responses |-> {}, telegram |-> {}, store |-> {}]
    /\ requests = 0
    /\ cdb = NoDb
    /\ \E tf \in Timeframes, ts \in NormTimes : norm = [tf |-> tf, ts |-> ts, out |-> NULL]
    /\ probe = NoProbe

Normalize ==
    /\ norm.out = NULL
    /\ norm' = [norm EXCEPT !.out = _normalize_ts(norm.ts, norm.tf)]
    /\ UNCHANGED <<positions, candles, clock, run, mutations, DATA_ONLY, env, requests, cdb, probe>>

NextNormalize == Normalize

SpecNormalize == InitNormalize /\ [][NextNormalize]_vars

----------------------------------------------------------------------------
(* Candle store: one (pair, tf) slice of candles and candle_state *)

HEAL_SLACK == 60                 \* pd.Timedelta(minutes=1), in seconds

\* Bars the market-data source may deliver: a close timestamp on the grid or
\* two minutes off it, and one of two OHLC contents.
Drifts == {0 - HMS(0, 2, 0), 0, HMS(0, 2, 0)}
Versions == {1, 2}
GridTs(tf) == {k * Interval(tf) : k \in 1..MaxTs}
RawTs(tf) == {g + d : g \in GridTs(tf), d \in Drifts}
RawBars(tf) == [ts : RawTs(tf), v : Versions]

\* What a fetch returns: no bar, or bars sorted by time without duplicates
\* (polygon.py 107-115).
Fetches(tf) ==
    {<<>>} \cup {<<b>> : b \in RawBars(tf)} \cup
    {p \in RawBars(tf) \X RawBars(tf) : p[1].ts < p[2].ts}

TsOf(rows) == {row.ts : row \in rows}
SetMax(S) == CHOOSE x \in S : \A y \in S : y <= x
SetMin(S) == CHOOSE x \in S : \A y \in S : x <= y

get_count(rows) == Cardinality(rows)
get_oldest_ts(rows) == IF rows = {} THEN NULL ELSE SetMin(TsOf(rows))
get_newest_ts(rows) == IF rows = {} THEN NULL ELSE SetMax(TsOf(rows))

\* Faulty variant: the timestamp stored as given.
set_last_ts_raw(ts, tf) == ts

\* Faulty variant: the watermark stored one bar interval ahead.
set_last_ts_next(ts, tf) == _normalize_ts(ts, tf) + Interval(tf)

\* set_last_ts: the value written to candle_state.last_ts
set_last_ts(ts, tf) == _normalize_ts(ts, tf)

\* Faulty variant: duplicated(keep="first").
dedupe_keep_first(df, tf) ==
    { [ts |-> _normalize_ts(df[i].ts, tf), v |-> df[i].v] :
        i \in { i \in 1..Len(df) :
                  ~\E j \in 1..(i - 1) :
                      _normalize_ts(df[j].ts, tf) = _normalize_ts(df[i].ts, tf) } }

\* df.index.map(_normalize_ts); df[~df.index.duplicated(keep="last")]
dedupe(df, tf) ==
    { [ts |-> _normalize_ts(df[i].ts, tf), v |-> df[i].v] :
        i \in { i \in 1..Len(df) :
                  ~\E j \in (i + 1)..Len(df) :
                      _normalize_ts(df[j].ts, tf) = _normalize_ts(df[i].ts, tf) } }

\* INSERT ... ON CONFLICT (pair, tf, ts) DO UPDATE, for each row of the batch
upsert_candles(rows, tf, df) ==
    IF df = <<>> THEN rows
    ELSE {row \in rows : row.ts \notin TsOf(dedupe(df, tf))} \cup dedupe(df, tf)

\* Faulty variant: ORDER BY ts ASC.
trim_candles_asc(rows, keep) ==
    {row \in rows : Cardinality({r2 \in rows : r2.ts < row.ts}) < keep}

\* DELETE the rows past OFFSET keep of ORDER BY ts DESC
trim_candles(rows, keep) ==
    {row \in rows : Cardinality({r2 \in rows : r2.ts > row.ts}) < keep}

\* History: per grid timestamp, the content of the most recent bar of a batch
\* handed to upsert_candles that normalizes onto it, in batch order, and
\* whether one (n = 1) or several (n = 2) such bars were handed over.
RECURSIVE record_writes(_, _, _)
record_writes(lastw, df, tf) ==
    IF df = <<>> THEN lastw
    ELSE LET key == _normalize_ts(Head(df).ts, tf)
         IN  record_writes([k \in DOMAIN lastw \cup {key} |->
                                IF k # key THEN lastw[k]
                                ELSE [v |-> Head(df).v,
                                      n |-> IF key \in DOMAIN lastw THEN 2 ELSE 1]],
                           Tail(df), tf)

newer_than(df, ts) == SelectSeq(df, LAMBDA b : b.ts > ts)
older_than(df, ts) == SelectSeq(df, LAMBDA b : b.ts < ts)

\* sync_tf(pair, pair_short, tf, now, fetch_fn, bootstrap_days, keep), the
\* fetch returning df
sync_tf(db, df, keep) ==
    LET tf == db.tf
        newest_db == get_newest_ts(db.rows)
        \* candle_state empty, candles not: align
        aligned == IF db.last_ts = NULL /\ newest_db # NULL
                   THEN set_last_ts(newest_db, tf) ELSE db.last_ts
        \* candle_state ahead of candles: correct
        last_ts == IF aligned # NULL /\ newest_db # NULL
                      /\ aligned > newest_db + HEAL_SLACK
                   THEN set_last_ts(newest_db, tf) ELSE aligned
        new == IF last_ts # NULL THEN newer_than(df, last_ts) ELSE df
    IN  IF df = <<>> \/ new = <<>>
        THEN [db EXCEPT !.last_ts = last_ts, !.op = "sync", !.did = FALSE, !.wrote = {}]
        ELSE [db EXCEPT !.rows = trim_candles(upsert_candles(db.rows, tf, new), keep),
                        !.last_ts = set_last_ts(new[Len(new)].ts, tf),
                        !.op = "sync", !.did = TRUE,
                        !.wrote = TsOf(dedupe(new, tf)),
                        !.lastw = record_writes(db.lastw, new, tf)]

\* backfill_if_needed(pair, pair_short, tf, fetch_fn, target, chunk_td), the
\* fetch returning df
backfill_store(db, df, target) ==
    LET tf == db.tf
        n == get_count(db.rows)
        oldest == get_oldest_ts(db.rows)
        old == older_than(df, oldest)
        nothing == [db EXCEPT !.op = "backfill", !.did = FALSE, !.wrote = {}]
    IN  IF n >= target THEN nothing
        ELSE IF oldest = NULL THEN nothing
        ELSE IF df = <<>> THEN nothing
        ELSE IF old = <<>> THEN nothing
        ELSE [db EXCEPT !.rows = trim_candles(upsert_candles(db.rows, tf, old), target),
                        !.op = "backfill", !.did = TRUE,
                        !.wrote = TsOf(dedupe(old, tf)),
                        !.lastw = record_writes(db.lastw, old, tf)]

IdleRunOnce ==
    /\ positions = {}
    /\ candles = [p \in Shorts |-> [n |-> 0, ts |-> NULL, hi |-> NULL, lo |-> NULL,
                                     has1h |-> FALSE]]
    /\ clock = 0
    /\ run = [r \in Runners |-> IdleRun]
    /\ mutations = <<>>
    /\ DATA_ONLY = FALSE
    /\ env = [overlap |-> FALSE, universes |-> {}, shapes |-> {}, indicators |-> {},
               responses |-> {}, telegram |-> {}, store |-> {}]
    /\ requests = 0

\* Both tables empty, as init_db creates them.
InitCandles ==
    /\ IdleRunOnce
    /\ norm = NoNorm
    /\ probe = NoProbe
    /\ \E tf \in Timeframes : cdb = [NoDb EXCEPT !.tf = tf]

SyncTfCall ==
    /\ \E df \in Fetches(cdb.tf) : cdb' = sync_tf(cdb, df, KeepBars)
    /\ UNCHANGED <<positions, candles, clock, run, mutations, DATA_ONLY, env, requests, norm, probe>>

BackfillCall ==
    /\ \E df \in Fetches(cdb.tf) : cdb' = backfill_store(cdb, df, TargetBars)
    /\ UNCHANGED <<positions, candles, clock, run, mutations, DATA_ONLY, env, requests, norm, probe>>

NextCandles == SyncTfCall \/ BackfillCall

SpecCandles == InitCandles /\ [][NextCandles]_vars

\* Tables left in any state by something other than sync_tf: bars on the grid
\* and a watermark that may be behind or ahead of them.
InitHeal ==
    /\ IdleRunOnce
    /\ norm = NoNorm
    /\ probe = NoProbe
    /\ \E tf \in Timeframes :
       \E stored \in SUBSET GridTs(tf), w \in GridTs(tf) \cup {NULL} :
          cdb = [NoDb EXCEPT !.tf = tf,
                             !.rows = {[ts |-> t, v |-> 1] : t \in stored},
                             !.last_ts = w,
                             !.lastw = [t \in stored |-> [v |-> 1, n |-> 1]]]

SpecHeal == InitHeal /\ [][NextCandles]_vars

----------------------------------------------------------------------------
(* Candle store: a sync_tf call run again, and one that is interrupted *)

\* The first n rows of the loop `for ts, r in df.iterrows(): exec_sql(INSERT ...)`
\* of upsert_candles, which runs over the batch sorted by normalized timestamp.
upsert_prefix(rows, tf, df, n) ==
    LET batch == dedupe(df, tf)
        done == {b \in batch : Cardinality({c \in batch : c.ts < b.ts}) < n}
    IN  {row \in rows : row.ts \notin TsOf(done)} \cup done

\* Faulty variant: the watermark advanced before the bars are written.
sync_tf_interrupted_watermark_first(db, df, n) ==
    LET tf == db.tf
        newest_db == get_newest_ts(db.rows)
        aligned == IF db.last_ts = NULL /\ newest_db # NULL
                   THEN set_last_ts(newest_db, tf) ELSE db.last_ts
        last_ts == IF aligned # NULL /\ newest_db # NULL
                      /\ aligned > newest_db + HEAL_SLACK
                   THEN set_last_ts(newest_db, tf) ELSE aligned
        new == IF last_ts # NULL THEN newer_than(df, last_ts) ELSE df
    IN  [db EXCEPT !.rows = upsert_prefix(db.rows, tf, new, n),
                   !.last_ts = IF new = <<>> THEN last_ts
                               ELSE set_last_ts(new[Len(new)].ts, tf),
                   !.op = "interrupted", !.did = FALSE]

\* sync_tf up to the point where an exec_sql of upsert_candles or the one of
\* set_last_ts raises after n rows were written: the alignment of the
\* watermark and the n rows are committed (autocommit), the advance of the
\* watermark and the trim are not reached.
sync_tf_interrupted(db, df, n) ==
    LET tf == db.tf
        newest_db == get_newest_ts(db.rows)
        aligned == IF db.last_ts = NULL /\ newest_db # NULL
                   THEN set_last_ts(newest_db, tf) ELSE db.last_ts
        last_ts == IF aligned # NULL /\ newest_db # NULL
                      /\ aligned > newest_db + HEAL_SLACK
                   THEN set_last_ts(newest_db, tf) ELSE aligned
        new == IF last_ts # NULL THEN newer_than(df, last_ts) ELSE df
    IN  [db EXCEPT !.rows = upsert_prefix(db.rows, tf, new, n),
                   !.last_ts = last_ts,
                   !.op = "interrupted", !.did = FALSE]

\* The bars sync_tf hands to upsert_candles
sync_tf_batch(db, df) ==
    LET newest_db == get_newest_ts(db.rows)
        aligned == IF db.last_ts = NULL /\ newest_db # NULL
                   THEN set_last_ts(newest_db, db.tf) ELSE db.last_ts
        last_ts == IF aligned # NULL /\ newest_db # NULL
                      /\ aligned > newest_db + HEAL_SLACK
                   THEN set_last_ts(newest_db, db.tf) ELSE aligned
    IN  IF last_ts # NULL THEN newer_than(df, last_ts) ELSE df

\* The history of upserts is not followed while calls are repeated.
no_history(db) == [db EXCEPT !.wrote = {}, !.lastw = <<>>]

Stored(db) == [rows |-> db.rows, last_ts |-> db.last_ts]

InitResume ==
    /\ IdleRunOnce
    /\ norm = NoNorm
    /\ probe = NoProbe
    /\ \E tf \in Timeframes : cdb = [NoDb EXCEPT !.tf = tf]

\* A sync_tf call; the answer of the source is remembered
SyncTfFirst ==
    /\ cdb.op \notin {"sync", "interrupted"}
    /\ \E df \in Fetches(cdb.tf) :
          cdb' = [no_history(sync_tf(cdb, df, KeepBars)) EXCEPT !.src = df]
    /\ UNCHANGED <<positions, candles, clock, run, mutations, DATA_ONLY, env, requests, norm, probe>>

\* The next sync_tf call, the source holding the same bars
SyncTfAgain ==
    /\ cdb.op = "sync"
    /\ cdb' = [no_history(sync_tf(cdb, cdb.src, KeepBars)) EXCEPT !.op = "sync_again",
                                                                 !.src = <<>>]
    /\ UNCHANGED <<positions, candles, clock, run, mutations, DATA_ONLY, env, requests, norm, probe>>

\* A sync_tf call that raises inside upsert_candles or set_last_ts; what the
\* call would have stored is remembered
SyncTfInterrupted ==
    /\ cdb.op \notin {"sync", "interrupted"}
    /\ \E df \in Fetches(cdb.tf) :
          /\ sync_tf_batch(cdb, df) # <<>>
          /\ \E n \in 1..Len(sync_tf_batch(cdb, df)) :
                cdb' = [sync_tf_interrupted(cdb, df, n) EXCEPT
                           !.src = df,
                           !.expect = Stored(sync_tf(cdb, df, KeepBars))]
    /\ UNCHANGED <<positions, candles, clock, run, mutations, DATA_ONLY, env, requests, norm, probe>>

\* The sync_tf call after an interrupted one, the source holding the same bars
SyncTfRepair ==
    /\ cdb.op = "interrupted"
    /\ cdb' = [no_history(sync_tf(cdb, cdb.src, KeepBars)) EXCEPT !.op = "sync_repair",
                                                                 !.src = <<>>,
                                                                 !.expect = <<>>]
    /\ UNCHANGED <<positions, candles, clock, run, mutations, DATA_ONLY, env, requests, norm, probe>>

BackfillBetween ==
    /\ cdb.op \notin {"sync", "interrupted"}
    /\ \E df \in Fetches(cdb.tf) : cdb' = no_history(backfill_store(cdb, df, TargetBars))
    /\ UNCHANGED <<positions, candles, clock, run, mutations, DATA_ONLY, env, requests, norm, probe>>

NextResume ==
    \/ SyncTfFirst
    \/ SyncTfAgain
    \/ SyncTfInterrupted
    \/ SyncTfRepair
    \/ BackfillBetween

SpecResume == InitResume /\ [][NextResume]_vars

----------------------------------------------------------------------------
(* Candle store: sync_tf calls that may raise at any store operation *)

\* sync_tf up to the point where the exec_sql of trim_candles raises: the bars
\* are written and the watermark is advanced, the trim is not applied.
sync_tf_untrimmed(db, df) ==
    LET tf == db.tf
        new == sync_tf_batch(db, df)
    IN  [db EXCEPT !.rows = upsert_candles(db.rows, tf, new),
                   !.last_ts = set_last_ts(new[Len(new)].ts, tf),
                   !.op = "untrimmed", !.did = FALSE]

\* A sync_tf call that returns
SyncTfReturns ==
    /\ \E df \in Fetches(cdb.tf) : cdb' = no_history(sync_tf(cdb, df, KeepBars))
    /\ UNCHANGED <<positions, candles, clock, run, mutations, DATA_ONLY, env, requests, norm, probe>>

\* A sync_tf call that raises before the watermark is advanced: in the fetch
\* (n = 0, df what the fetch would have returned), in an INSERT of
\* upsert_candles after n rows, or in set_last_ts after the last row
SyncTfRaisesInUpsert ==
    /\ \E df \in Fetches(cdb.tf) :
       \E n \in 0..Len(sync_tf_batch(cdb, df)) :
          cdb' = no_history(sync_tf_interrupted(cdb, df, n))
    /\ UNCHANGED <<positions, candles, clock, run, mutations, DATA_ONLY, env, requests, norm, probe>>

\* A sync_tf call that raises in trim_candles
SyncTfRaisesInTrim ==
    /\ \E df \in Fetches(cdb.tf) :
          /\ sync_tf_batch(cdb, df) # <<>>
          /\ cdb' = no_history(sync_tf_untrimmed(cdb, df))
    /\ UNCHANGED <<positions, candles, clock, run, mutations, DATA_ONLY, env, requests, norm, probe>>

\* A backfill_if_needed call between sync_tf calls (DATA_ONLY)
BackfillReturns ==
    /\ \E df \in Fetches(cdb.tf) : cdb' = no_history(backfill_store(cdb, df, TargetBars))
    /\ UNCHANGED <<positions, candles, clock, run, mutations, DATA_ONLY, env, requests, norm, probe>>

NextAbort ==
    \/ SyncTfReturns
    \/ SyncTfRaisesInUpsert
    \/ SyncTfRaisesInTrim
    \/ BackfillReturns

\* Both tables empty, as init_db creates them; any call may raise.
SpecAbort == InitCandles /\ [][NextAbort]_vars

----------------------------------------------------------------------------
(* Candle store: DATA_ONLY runs against a source that holds a fixed set of bars *)

ChunkBars == 2       \* chunk_td of backfill_if_needed, in bar intervals, scaled down
BootstrapBars == 1   \* bootstrap_days of sync_tf, in bar intervals, scaled down

\* The grid timestamps the source may hold a bar for, and `now`: the close of
\* the newest one.
SourceLen == MaxTs + ChunkBars
SourceTs(tf) == {k * Interval(tf) : k \in 1..SourceLen}
SourceNow(tf) == SourceLen * Interval(tf)

\* pd.DataFrame(rows).drop_duplicates(subset=["time"]).sort_values("time")
RECURSIVE sort_values(_)
sort_values(bars) ==
    IF bars = {} THEN <<>>
    ELSE LET first == CHOOSE b \in bars : \A c \in bars : b.ts <= c.ts
         IN  <<first>> \o sort_values(bars \ {first})

\* fetch_15m_fx / fetch_1h_fx (pair, start, end): the bars of the source whose
\* open timestamp lies in [start, end], under their close timestamp
fetch_fx(source, tf, start, end) ==
    sort_values({b \in source : /\ start <= b.ts - Interval(tf)
                                 /\ b.ts - Interval(tf) <= end})

\* start_dt of sync_tf: the watermark after alignment and correction, or
\* now - bootstrap_days
sync_tf_start(db, now) ==
    LET newest_db == get_newest_ts(db.rows)
        aligned == IF db.last_ts = NULL /\ newest_db # NULL
                   THEN set_last_ts(newest_db, db.tf) ELSE db.last_ts
        last_ts == IF aligned # NULL /\ newest_db # NULL
                      /\ aligned > newest_db + HEAL_SLACK
                   THEN set_last_ts(newest_db, db.tf) ELSE aligned
    IN  IF last_ts = NULL THEN now - BootstrapBars * Interval(db.tf) ELSE last_ts

\* start_dt and end_dt of backfill_if_needed (its fetch is reached only with
\* a stored bar)
backfill_start(db) == get_oldest_ts(db.rows) - ChunkBars * Interval(db.tf)
backfill_end(db) == get_oldest_ts(db.rows)

\* Both tables empty; the source holds any set of bars, all on the grid.
InitBackfill ==
    /\ IdleRunOnce
    /\ norm = NoNorm
    /\ probe = NoProbe
    /\ \E tf \in Timeframes : \E held \in SUBSET SourceTs(tf) :
          cdb = [NoDb EXCEPT !.tf = tf, !.source = {[ts |-> t, v |-> 1] : t \in held}]

\* sync_tf of a DATA_ONLY run
SyncTfSource ==
    /\ cdb.op # "sync"
    /\ cdb' = no_history(sync_tf(cdb,
                   fetch_fx(cdb.source, cdb.tf, sync_tf_start(cdb, SourceNow(cdb.tf)),
                            SourceNow(cdb.tf)),
                   KeepBars))
    /\ UNCHANGED <<positions, candles, clock, run, mutations, DATA_ONLY, env, requests, norm, probe>>

\* backfill_if_needed of a DATA_ONLY run
BackfillSource ==
    /\ cdb.op = "sync"
    /\ cdb' = no_history(backfill_store(cdb,
                   IF cdb.rows = {} THEN <<>>
                   ELSE fetch_fx(cdb.source, cdb.tf, backfill_start(cdb), backfill_end(cdb)),
                   TargetBars))
    /\ UNCHANGED <<positions, candles, clock, run, mutations, DATA_ONLY, env, requests, norm, probe>>

NextBackfill == SyncTfSource \/ BackfillSource

\* Runs are repeated for ever.
SpecBackfill == InitBackfill /\ [][NextBackfill]_vars /\ WF_vars(NextBackfill)

----------------------------------------------------------------------------
(* Indicators: is_pivot_low, is_pivot_high (runner.py 144-154) *)

PivotLen == 5                    \* bar sequences of up to PivotLen bars

\* A column of a frame is a sequence; iloc positions count from 0.
iloc(col, i) == col[i + 1]

\* col.iloc[a:b] for 0 <= a <= b <= len, as the set of its values
iloc_slice(col, a, b) == {col[j + 1] : j \in a..(b - 1)}

\* Faulty variant: a tie with a neighbour still counts as a pivot.
is_pivot_low_ties(low, i, k) ==
    IF i - k < 0 \/ i + k >= Len(low) THEN FALSE
    ELSE /\ iloc(low, i) <= SetMin(iloc_slice(low, i - k, i))
         /\ iloc(low, i) <= SetMin(iloc_slice(low, i + 1, i + k + 1))

is_pivot_low(low, i, k) ==
    IF i - k < 0 \/ i + k >= Len(low) THEN FALSE
    ELSE /\ iloc(low, i) < SetMin(iloc_slice(low, i - k, i))
         /\ iloc(low, i) < SetMin(iloc_slice(low, i + 1, i + k + 1))

is_pivot_high(high, i, k) ==
    IF i - k < 0 \/ i + k >= Len(high) THEN FALSE
    ELSE /\ iloc(high, i) > SetMax(iloc_slice(high, i - k, i))
         /\ iloc(high, i) > SetMax(iloc_slice(high, i + 1, i + k + 1))

\* Lows or highs of the bars of a frame, and the positions and widths asked for
PivotPrices == 3..5
PivotColumns == UNION {[1..n -> PivotPrices] : n \in 0..PivotLen}
PivotIndexes == (0 - 1)..PivotLen
PivotWidths == 1..FRACTAL_K

InitPivot ==
    /\ IdleRunOnce
    /\ cdb = NoDb
    /\ norm = NoNorm
    /\ \E fn \in {"is_pivot_low", "is_pivot_high"}, col \in PivotColumns,
          i \in PivotIndexes, k \in PivotWidths :
          probe = [fn |-> fn, col |-> col, i |-> i, k |-> k, out |-> "none"]

IsPivot ==
    /\ probe.fn \in {"is_pivot_low", "is_pivot_high"}
    /\ probe.out = "none"
    /\ probe' = [probe EXCEPT !.out =
                    IF probe.fn = "is_pivot_low"
                    THEN IF is_pivot_low(probe.col, probe.i, probe.k) THEN "True" ELSE "False"
                    ELSE IF is_pivot_high(probe.col, probe.i, probe.k) THEN "True" ELSE "False"]
    /\ UNCHANGED <<positions, candles, clock, run, mutations, DATA_ONLY, env, requests, cdb, norm>>

NextPivot == IsPivot

SpecPivot == InitPivot /\ [][NextPivot]_vars

----------------------------------------------------------------------------
(* The activation test of run_once (runner.py 441-448) on one bar *)

\* Positions entered at 100 with the stop 30 points away or at the entry, and
\* bars whose high and low lie within 30 points of the entry.
ActivationStops == {70, 100, 130}
ActivationHighs == 100..130
ActivationLows == 70..100

InitActivation ==
    /\ IdleRunOnce
    /\ cdb = NoDb
    /\ norm = NoNorm
    /\ \E side \in Sides, sl \in ActivationStops, hi \in ActivationHighs,
          lo \in ActivationLows :
          probe = [fn |-> "activation", side |-> side, entry |-> 100, sl |-> sl,
                   hi |-> hi, lo |-> lo, out |-> <<>>]

\* fav >= act for the position as an EARLY and as a CONFIRMED entry
Activation ==
    /\ probe.fn = "activation"
    /\ probe.out = <<>>
    /\ LET pos == [NoPos EXCEPT !.side = probe.side, !.entry_price = probe.entry,
                                !.sl_price = probe.sl]
           df15 == [NoDf EXCEPT !.hi = probe.hi, !.lo = probe.lo]
       IN  probe' = [probe EXCEPT !.out =
                        [m \in Modes |-> fav_reaches_act([pos EXCEPT !.mode = m], df15)]]
    /\ UNCHANGED <<positions, candles, clock, run, mutations, DATA_ONLY, env, requests, cdb, norm>>

NextActivation == Activation

SpecActivation == InitActivation /\ [][NextActivation]_vars

----------------------------------------------------------------------------
(* Properties *)

OpenPositions(pair_short) == OpenRows(positions, pair_short)
Closed(row) == row.closed_at # NULL
SameRow(row, row2) == row2.id = row.id
Evaluating(r) ==
    /\ run[r].pc = "manage"
    /\ ~already_processed_15m(run[r].pos, run[r].df15.ts)

\* C1: after any sequence of sequential runs, every instrument has at most one
\* position whose closed_at is null.
AtMostOneOpenPosition ==
    \A p \in Shorts : Cardinality(OpenPositions(p)) <= 1

\* A second position of an instrument has been opened after the first was
\* closed, and a run has found the open one.
AtMostOneOpenPositionWitness ==
    \E p \in Shorts :
        /\ Cardinality(OpenPositions(p)) = 1
        /\ \E row \in positions : row.pair = p /\ Closed(row)
        /\ \E r \in Runners : run[r].pc = "manage" /\ run[r].pos \in OpenPositions(p)

\* C2: a run that finds the open position already evaluated at the newest stored
\* 15m bar's timestamp changes no field of any position and reports
\* already_processed_15m.
BarIdempotencyGuard ==
    [][\A r \in Runners :
          ( /\ run[r].pc = "manage"
            /\ run[r].pos.id \in DOMAIN mutations
            /\ mutations[run[r].pos.id].ts = run[r].df15.ts
            /\ run'[r] # run[r] )
          => /\ positions' = positions
             /\ run'[r].out[pair_short_of(run[r])] =
                    run[r].out[pair_short_of(run[r])] \o <<"already_processed_15m">>]_vars

\* A run has skipped a position that an earlier run had armed at the same bar.
BarIdempotencyGuardWitness ==
    \E r \in Runners :
        /\ run[r].pc = "done"
        /\ run[r].result = "ok"
        /\ Len(run[r].universe) = 1
        /\ run[r].out[_fmt_pair(run[r].universe[1])] = <<"already_processed_15m">>
        /\ \E row \in OpenPositions(_fmt_pair(run[r].universe[1])) :
              /\ row.trail_on
              /\ row.last_15m_ts = candles[row.pair].ts

\* C3: with overlapping runs, a position is mutated (update_trail or
\* close_position applied) at most once for any given bar timestamp.
AtMostOneMutationPerBar ==
    \A id \in DOMAIN mutations : mutations[id].n <= 1

\* C4: the stored trail_price of an armed BUY position never decreases and that
\* of an armed SELL position never increases; candidates 11000, 10990, 11005
\* store 11000, 11000, 11005 for a BUY whose stop is 10950.
TrailExample ==
    LET t1 == tighten("BUY", 10950, 11000, 10950)
        t2 == tighten("BUY", t1, 10990, 10950)
        t3 == tighten("BUY", t2, 11005, 10950)
    IN  <<t1, t2, t3>> = <<11000, 11000, 11005>>

MonotonicTrail ==
    [][/\ TrailExample
       /\ \A row \in positions : \A row2 \in positions' :
            (SameRow(row, row2) /\ row.trail_on /\ row.trail_price # NULL)
            => /\ row.side = "BUY" => row2.trail_price >= row.trail_price
               /\ row.side = "SELL" => row2.trail_price <= row.trail_price]_vars

\* An armed BUY position kept its trail at 89 in an evaluation whose accepted
\* swing (80) gave a looser candidate (79).
MonotonicTrailWitness ==
    \E row \in positions :
        /\ row.side = "BUY"
        /\ row.trail_on
        /\ row.trail_price = 89
        /\ row.last_swing_price = 80

\* C5: a position whose trail_price is set has trail_price >= sl_price when it
\* is a BUY and trail_price <= sl_price when it is a SELL.
TrailNeverLooserThanStop ==
    \A row \in positions :
        row.trail_price # NULL
        => /\ row.side = "BUY" => row.trail_price >= row.sl_price
           /\ row.side = "SELL" => row.trail_price <= row.sl_price

\* An armed SELL position was evaluated with a floor candidate (124) looser
\* than its stop (120) and no swing: its trail is the stop.
TrailNeverLooserThanStopWitness ==
    \E row \in positions :
        /\ row.side = "SELL"
        /\ row.trail_on
        /\ row.last_swing_price = NULL
        /\ row.last_15m_ts # NULL
        /\ candles[row.pair].n = MIN_BARS
        /\ row.trail_price = row.sl_price

\* The newest bar breaches both the stop level and the armed trail level.
BothBreached(pos, df15) ==
    /\ pos.trail_on
    /\ pos.trail_price # NULL
    /\ IF pos.side = "BUY"
       THEN df15.lo <= pos.sl_price /\ df15.lo <= pos.trail_price
       ELSE df15.hi >= pos.sl_price /\ df15.hi >= pos.trail_price

\* C6: an evaluation whose newest bar breaches both the stop level and the
\* armed trail level closes the position with reason SL.
StopPrecedence ==
    [][\A r \in Runners :
          (Evaluating(r) /\ BothBreached(run[r].pos, run[r].df15) /\ run'[r] # run[r])
          => \A row2 \in positions' :
                SameRow(run[r].pos, row2) => Closed(row2) /\ row2.close_reason = "SL"]_vars

\* An armed position whose trail is tighter than its stop was closed by its stop.
StopPrecedenceWitness ==
    \E row \in positions :
        /\ Closed(row)
        /\ row.close_reason = "SL"
        /\ row.trail_on
        /\ row.trail_price # NULL
        /\ row.trail_price # row.sl_price

\* C7: once trail_on is stored as true, no later step stores it as false.
ArmingIrreversible ==
    [][\A row \in positions : \A row2 \in positions' :
          (SameRow(row, row2) /\ row.trail_on) => row2.trail_on]_vars

\* An armed position has just been evaluated on a bar that does not reach the
\* activation threshold, with too few bars for the trail engine.
ArmingIrreversibleWitness ==
    \E r \in Runners :
        /\ run[r].pc = "done"
        /\ Len(run[r].universe) = 1
        /\ run[r].out[_fmt_pair(run[r].universe[1])] = <<"managed_position">>
        /\ \E row \in OpenPositions(_fmt_pair(run[r].universe[1])) :
              /\ row.trail_on
              /\ row.last_15m_ts = candles[row.pair].ts
              /\ row.last_15m_ts > FirstTs
              /\ candles[row.pair].n < MIN_BARS
              /\ ~fav_reaches_act(row, _load_df_from_neon(candles[row.pair]))

\* C8: no step changes a field of a closed position or applies a write to it,
\* and no run holds a closed position as the open one.
ClosedIsTerminal ==
    [][/\ \A row \in positions :
             Closed(row) => row \in positions' /\ mutations'[row.id] = mutations[row.id]
       /\ \A r \in Runners : ~Closed(run'[r].pos)]_vars

\* A position was closed, and a later position of the same instrument has
\* been evaluated since.
ClosedIsTerminalWitness ==
    \E row \in positions : \E row2 \in positions :
        /\ Closed(row)
        /\ row2.pair = row.pair
        /\ ~Closed(row2)
        /\ row2.last_15m_ts # NULL

\* C9: a position closes with reason TRAIL only if trail_on was stored as true
\* before the step, and no step both arms and closes a position.
TrailCloseOnlyWhenArmed ==
    [][\A row \in positions : \A row2 \in positions' :
          (SameRow(row, row2) /\ ~Closed(row))
          => /\ (Closed(row2) /\ row2.close_reason = "TRAIL") => row.trail_on
             /\ (Closed(row2) /\ ~row.trail_on) => row2.close_reason = "SL"
             /\ (~row.trail_on /\ row2.trail_on) => ~Closed(row2)]_vars

\* A position was closed by its trail, and an unarmed one by its stop.
TrailCloseOnlyWhenArmedWitness ==
    /\ \E row \in positions : Closed(row) /\ row.close_reason = "TRAIL" /\ row.trail_on
    /\ \E row \in positions : Closed(row) /\ row.close_reason = "SL" /\ ~row.trail_on

\* C10: when the market-data source answers a fetch with HTTP 429, the run has
\* stopped and its result is the rate-limited one.
RateLimitAbort ==
    \A r \in Runners :
        run[r].status_code = 429
        => run[r].pc = "done" /\ run[r].result = "polygon_rate_limited"

\* The permission errors of the market-data source.
PermissionStatuses == {401, 403}

\* C11: a failure while one instrument is processed that is neither a rate
\* limit nor a permission error does not end the run: a run ends by raising
\* only on a permission error.
FailureIsolation ==
    \A r \in Runners :
        run[r].result = "raised" => run[r].status_code \in PermissionStatuses

\* C12: what a finished run hands back has, for each instrument of the
\* universe, an entry that holds at least one action or error.
PerInstrumentOutcome ==
    \A r \in Runners :
        run[r].pc = "done"
        => /\ run[r].result = "ok"
           /\ \A i \in 1..Len(run[r].universe) :
                 /\ _fmt_pair(run[r].universe[i]) \in DOMAIN run[r].out
                 /\ run[r].out[_fmt_pair(run[r].universe[i])] # <<>>

\* C13: every run_once invocation eventually returns or raises, whatever the
\* market-data source answers.
Termination ==
    \A r \in Runners : (run[r].pc # "idle") ~> (run[r].pc = "done")

\* The result is on the grid and is the bucket boundary nearest to the
\* argument, the exact midpoint going up; an on-grid argument is returned.
NearestBucket ==
    norm.out # NULL
    => /\ norm.out % Interval(norm.tf) = 0
       /\ 2 * (norm.out - norm.ts) <= Interval(norm.tf)
       /\ 2 * (norm.ts - norm.out) < Interval(norm.tf)
       /\ norm.ts % Interval(norm.tf) = 0 => norm.out = norm.ts

\* C15 as stated: nearest-bucket rounding, with 21:07:40 -> 21:00:00 and
\* 21:08:10 -> 21:15:00 for 15m.
GridNormalizationAsStated ==
    /\ NearestBucket
    /\ (norm.out # NULL /\ norm.tf = "15m")
       => /\ norm.ts = HMS(21, 7, 40) => norm.out = HMS(21, 0, 0)
          /\ norm.ts = HMS(21, 8, 10) => norm.out = HMS(21, 15, 0)

\* C15: _normalize_ts is nearest-bucket rounding (15m: b - 7m30s <= t < b + 7m30s,
\* 1h: b - 30m <= t < b + 30m), the result is on the grid and on-grid
\* timestamps are fixed points; for 15m, 21:07:20 -> 21:00:00, the midpoint
\* 21:07:30 -> 21:15:00, 21:07:40 -> 21:15:00 and 21:08:10 -> 21:15:00.
GridNormalization ==
    /\ NearestBucket
    /\ (norm.out # NULL /\ norm.tf = "15m")
       => /\ norm.ts = HMS(21, 7, 20) => norm.out = HMS(21, 0, 0)
          /\ norm.ts = HMS(21, 7, 30) => norm.out = HMS(21, 15, 0)
          /\ norm.ts = HMS(21, 7, 40) => norm.out = HMS(21, 15, 0)
          /\ norm.ts = HMS(21, 8, 10) => norm.out = HMS(21, 15, 0)

\* 21:07:40 has been normalized for 15m.
GridNormalizationWitness ==
    /\ norm.tf = "15m"
    /\ norm.ts = HMS(21, 7, 40)
    /\ norm.out # NULL

\* C14: the store holds at most one bar per grid-normalized timestamp, every
\* stored timestamp is on the grid, and each bar carries the content of the
\* most recent write that normalized to its key (within a batch, the later bar).
IdempotentUpsert ==
    /\ \A r1 \in cdb.rows : \A r2 \in cdb.rows : r1.ts = r2.ts => r1 = r2
    /\ \A row \in cdb.rows :
          /\ row.ts % Interval(cdb.tf) = 0
          /\ row.ts \in DOMAIN cdb.lastw
          /\ row.v = cdb.lastw[row.ts].v

\* A key was written more than once, the last time with the second content,
\* and it is stored with another bar.
IdempotentUpsertWitness ==
    \E row \in cdb.rows :
        /\ cdb.lastw[row.ts].n = 2
        /\ row.v = 2
        /\ Cardinality(cdb.rows) = 2

\* C16: a sync_tf call that starts with watermark W upserts no bar whose
\* grid-normalized timestamp is <= W.
NoReprocessing ==
    [][(cdb'.op = "sync" /\ cdb.last_ts # NULL)
       => \A t \in cdb'.wrote : t > cdb.last_ts]_vars

\* C17: after a sync_tf call that wrote bars, the watermark is the largest
\* grid-normalized timestamp written by the call and the newest stored one.
WatermarkIsNewestWritten ==
    (cdb.op = "sync" /\ cdb.did)
    => /\ cdb.last_ts = SetMax(cdb.wrote)
       /\ cdb.last_ts = get_newest_ts(cdb.rows)

\* A sync_tf call wrote two bars onto a store that held bars already.
WatermarkIsNewestWrittenWitness ==
    /\ cdb.op = "sync"
    /\ cdb.did
    /\ Cardinality(cdb.wrote) = 2
    /\ \E k \in DOMAIN cdb.lastw : k \notin cdb.wrote

\* C18: a sync_tf call that finds a watermark and stored bars resets the
\* watermark to the newest stored timestamp exactly when it is ahead of it by
\* more than one bar interval (seen in calls that write no bar).
SelfHealThreshold ==
    [][(cdb'.op = "sync" /\ ~cdb'.did /\ cdb.last_ts # NULL /\ cdb.rows # {})
       => cdb'.last_ts =
            IF cdb.last_ts - get_newest_ts(cdb.rows) > Interval(cdb.tf)
            THEN get_newest_ts(cdb.rows) ELSE cdb.last_ts]_vars

\* Timestamps taken out of the store by a call: held or written, not kept.
Dropped == (TsOf(cdb.rows) \cup cdb'.wrote) \ TsOf(cdb'.rows)

\* C19: the store never holds more than `keep` bars, and a sync_tf call that
\* wrote bars keeps exactly the `keep` most recent ones.
BoundedRetention ==
    [][/\ Cardinality(cdb'.rows) <= KeepBars
       /\ (cdb'.op = "sync" /\ cdb'.did)
          => /\ \A t \in Dropped : \A u \in TsOf(cdb'.rows) : t < u
             /\ Dropped # {} => Cardinality(cdb'.rows) = KeepBars
             /\ get_newest_ts(cdb'.rows) = SetMax(TsOf(cdb.rows) \cup cdb'.wrote)]_vars

\* A sync_tf call wrote a bar and an older bar was deleted by the trim.
BoundedRetentionWitness ==
    /\ cdb.op = "sync"
    /\ cdb.did
    /\ Cardinality(cdb.rows) = KeepBars
    /\ \E k \in DOMAIN cdb.lastw : k \notin TsOf(cdb.rows)

\* The newest stored bar, timestamp and content.
NewestBar(rows) == {row \in rows : row.ts = get_newest_ts(rows)}

\* C20: a backfill_if_needed call leaves the watermark and the newest stored
\* bar as they were.
BackfillFrame ==
    [][cdb'.op = "backfill"
       => /\ cdb'.last_ts = cdb.last_ts
          /\ NewestBar(cdb'.rows) = NewestBar(cdb.rows)]_vars

\* C21: a second sync_tf call against the same source data leaves the stored
\* bars and the watermark as the first left them, and the sync_tf call after
\* one interrupted between the upsert and the advance of the watermark stores
\* the bars and the watermark the uninterrupted call would have stored.
SyncIdempotentResumable ==
    [][/\ cdb'.op = "sync_again" => Stored(cdb') = Stored(cdb)
       /\ cdb'.op = "sync_repair" => Stored(cdb') = cdb.expect]_vars

\* The call after an interrupted one has written bars and the store is full.
SyncIdempotentResumableWitness ==
    /\ cdb.op = "sync_repair"
    /\ cdb.did
    /\ Cardinality(cdb.rows) = KeepBars

\* C22: for every response of the entry-signal service that is absent, not a
\* mapping, lacks one of side/mode/entry/sl or carries an ill-formed value,
\* run_once creates no position, does not raise, reports no_signal and goes on
\* to the next instrument.
MalformedSignalIsNoSignal ==
    [][\A r \in Runners :
          ( /\ run[r].pc = "entry"
            /\ run'[r].resp \in {"malformed_shape", "malformed_value"} )
          => /\ positions' = positions
             /\ run'[r].result # "raised"
             /\ run'[r].out[pair_short_of(run[r])] =
                    run[r].out[pair_short_of(run[r])] \o <<"no_signal">>
             /\ run'[r].pc = IF run[r].i < Len(run[r].universe) THEN "begin" ELSE "done"]_vars

\* The positions table as the step of worker r leaves it when its
\* notifications are delivered.
WritesWhenDelivered(r) ==
    LET rr == run[r]
        pos == rr.pos
        df15 == rr.df15
        ps == pair_short_of(rr)
    IN  IF rr.pc = "manage"
        THEN IF hit_check(pos, df15) # "NONE"
             THEN {close_position(positions, pos.id, hit_check(pos, df15), clock)}
             ELSE { LET t == compute_trail([pos EXCEPT !.trail_on = arm(pos, df15)],
                                           df15, ind)
                    IN  update_trail(positions, pos.id, t.trail, t.trail_on, df15.ts,
                                     t.last_swing, t.last_swing_ts)
                    : ind \in env.indicators }
        ELSE { open_position(positions, <<ps, rr.now>>, ps, x.sig.side, x.sig.mode,
                             x.sig.entry, x.sig.sl)
               : x \in {y \in env.responses : response_kind(y) = "signal"} }

\* C23: whether a notification send succeeds, returns an error status or
\* raises, the step writes the position state it writes when the send
\* succeeds, the run does not raise, and it continues with the next step.
NotificationNeverAffectsRun ==
    [][\A r \in Runners :
          ( /\ run[r].pc \in {"manage", "entry"}
            /\ run'[r].tg \in {"error_status", "raises"} )
          => /\ positions' \in WritesWhenDelivered(r)
             /\ run'[r].result # "raised"
             /\ Len(run'[r].out[pair_short_of(run[r])]) =
                    Len(run[r].out[pair_short_of(run[r])]) + 1
             /\ run'[r].pc = IF run[r].i < Len(run[r].universe) THEN "begin" ELSE "done"]_vars

\* The send of a notification raised in an evaluation that armed or moved the
\* trail, and the run ended normally with the position armed and marked with
\* the bar.
NotificationNeverAffectsRunWitness ==
    \E r \in Runners :
        /\ run[r].tg = "raises"
        /\ run[r].pc = "done"
        /\ run[r].result = "ok"
        /\ run[r].out[_fmt_pair(run[r].universe[1])] = <<"managed_position">>
        /\ \E row \in OpenPositions(_fmt_pair(run[r].universe[1])) :
              row.trail_on /\ row.last_15m_ts = candles[row.pair].ts

\* k bars exist on each side of position i of the column.
HasNeighbours(col, i, k) == i - k >= 0 /\ i + k <= Len(col) - 1
Neighbours(i, k) == ((i - k)..(i + k)) \ {i}

\* C24: is_pivot_low(df, i, k) is true iff k bars exist on each side of i and
\* low[i] is strictly less than the low of each of the k bars before and each
\* of the k bars after; is_pivot_high is the mirror on highs; for k = 2 and
\* lows [5,4,3,4,5], index 2 is a pivot low and no other index is.
PivotDetection ==
    probe.fn \in {"is_pivot_low", "is_pivot_high"} /\ probe.out # "none"
    => /\ probe.fn = "is_pivot_low"
          => (probe.out = "True"
              <=> /\ HasNeighbours(probe.col, probe.i, probe.k)
                  /\ \A j \in Neighbours(probe.i, probe.k) :
                        iloc(probe.col, probe.i) < iloc(probe.col, j))
       /\ probe.fn = "is_pivot_high"
          => (probe.out = "True"
              <=> /\ HasNeighbours(probe.col, probe.i, probe.k)
                  /\ \A j \in Neighbours(probe.i, probe.k) :
                        iloc(probe.col, probe.i) > iloc(probe.col, j))
       /\ (probe.fn = "is_pivot_low" /\ probe.col = <<5, 4, 3, 4, 5>> /\ probe.k = 2)
          => (probe.out = "True" <=> probe.i = 2)

\* is_pivot_low has answered False for a low that ties with a neighbour and
\* is below the others.
PivotDetectionWitness ==
    /\ probe.fn = "is_pivot_low"
    /\ probe.col = <<5, 4, 3, 3, 5>>
    /\ probe.i = 2
    /\ probe.k = 2
    /\ probe.out = "False"

\* C25: the ratio at which the trail arms is lower for EARLY entries than for
\* CONFIRMED entries, so a bar that arms a CONFIRMED position arms an EARLY
\* position with the same entry and stop; a position whose entry equals its
\* stop never arms.
ActivationThresholdOrdering ==
    (probe.fn = "activation" /\ probe.out # <<>>)
    => /\ probe.out["CONFIRMED"] => probe.out["EARLY"]
       /\ probe.entry = probe.sl => ~probe.out["EARLY"] /\ ~probe.out["CONFIRMED"]

\* The fields of a position that a close leaves alone.
TrailState(row) ==
    <<row.trail_price, row.trail_on, row.last_swing_price, row.last_swing_ts,
      row.last_15m_ts>>

BackfillNoOverlap ==
    [][(cdb'.op = "backfill" /\ cdb.rows # {})
       => \A t \in cdb'.wrote :
             /\ t < get_oldest_ts(cdb.rows)
             /\ t \notin TsOf(cdb.rows)]_vars

\* The source holds enough bars older than the oldest stored bar.
EnoughOlderBars ==
    /\ cdb.rows # {}
    /\ Cardinality({b \in cdb.source : b.ts < get_oldest_ts(cdb.rows)})
          >= TargetBars - get_count(cdb.rows)

\* C28: in DATA_ONLY mode, if the source holds enough bars older than the
\* oldest stored bar, repeated runs eventually bring the stored bar count to
\* the target depth, also when the source has no bar for a chunk or more
\* before the oldest stored bar; at the target depth backfill writes nothing.
BackfillProgress ==
    /\ EnoughOlderBars ~> (get_count(cdb.rows) >= TargetBars)
    /\ [][(cdb'.op = "backfill" /\ get_count(cdb.rows) >= TargetBars) => ~cdb'.did]_vars

\* C29: an evaluation of an open position with fewer than ATR_LEN_15 +
\* FRACTAL_K + 5 bars, or with an undefined or non-positive ATR, leaves the
\* stored trail_price, last_swing_price and last_swing_ts exactly as they
\* were (a null trail_price stays null).
InsufficientHistoryNoOp ==
    [][\A r \in Runners :
          ( /\ Evaluating(r)
            /\ hit_check(run[r].pos, run[r].df15) = "NONE"
            /\ run'[r] # run[r]
            /\ run[r].df15.n < MIN_BARS \/ run'[r].atr15 = 0 )
          => \A row \in positions : \A row2 \in positions' :
                SameRow(row, row2)
                => /\ row2.trail_price = row.trail_price
                   /\ row2.last_swing_price = row.last_swing_price
                   /\ row2.last_swing_ts = row.last_swing_ts]_vars

\* C30: in every reachable state, an open position with trail_on = false has
\* trail_price = null.
TrailPriceNullUntilArmed ==
    \A row \in positions :
        (~Closed(row) /\ ~row.trail_on) => row.trail_price = NULL

\* C31: at every point of every sequence of sync_tf calls, the points where a
\* call was aborted between two store operations included, a watermark that
\* is set is not later than the newest stored bar when bars are stored.
WatermarkNeverAhead ==
    (cdb.last_ts # NULL /\ cdb.rows # {}) => cdb.last_ts <= get_newest_ts(cdb.rows)

\* A sync_tf call was aborted after it had written a bar newer than the
\* watermark, which it left where it was.
WatermarkNeverAheadWitness ==
    /\ cdb.op = "interrupted"
    /\ cdb.last_ts # NULL
    /\ cdb.last_ts < get_newest_ts(cdb.rows)
    /\ Cardinality(cdb.rows) > 1

\* C32: over the whole life of a position, in every sequence of runs, the
\* TRAIL ON notification is sent at most once, also when the update_trail
\* write that follows the send fails and the next run finds the position
\* still unarmed.
TrailOnNotifiedOnce ==
    \A id \in DOMAIN mutations : mutations[id].on <= 1

\* C33: a position is created with last_15m_ts null, and a run that finds it
\* with no 15m bar newer than the one that was the newest when it was opened
\* does not skip it: it evaluates it on that bar, closing it when the bar's
\* low or high hits the stop and marking it with the bar otherwise.
OpeningBarIsEvaluated ==
    [][/\ \A row2 \in positions' :
             row2.id \notin {row.id : row \in positions} => row2.last_15m_ts = NULL
       /\ \A r \in Runners :
             ( /\ run[r].pc = "manage"
               /\ opened_on(mutations, run[r].pos.id) = run[r].df15.ts
               /\ run'[r] # run[r] )
             => /\ run[r].pos.last_15m_ts = NULL
                /\ run'[r].out[pair_short_of(run[r])] #
                       run[r].out[pair_short_of(run[r])] \o <<"already_processed_15m">>
                /\ \E row2 \in positions' :
                      /\ SameRow(run[r].pos, row2)
                      /\ IF hit_check(run[r].pos, run[r].df15) # "NONE"
                         THEN /\ Closed(row2)
                              /\ row2.close_reason = hit_check(run[r].pos, run[r].df15)
                         ELSE /\ ~Closed(row2)
                              /\ row2.last_15m_ts = run[r].df15.ts]_vars

\* A run has found a position opened by an earlier run, with no newer bar
\* stored since, and has closed it on its stop.
OpeningBarIsEvaluatedWitness ==
    \E r \in Runners :
        /\ run[r].on_open_bar
        /\ run[r].pc = "done"
        /\ Len(run[r].universe) = 1
        /\ run[r].out[_fmt_pair(run[r].universe[1])] = <<"closed_SL">>
        /\ \E row \in positions :
              /\ Closed(row)
              /\ row.close_reason = "SL"
              /\ row.last_15m_ts = NULL
              /\ mutations[row.id].ts = candles[row.pair].ts
====
